---------------------------- MODULE Spec2Model ----------------------------
(***************************************************************************)
(* gemini-transcribe: a command-line run as a state machine.               *)
(*                                                                         *)
(* Two programs live in the repository: main.go (inline base64 request)    *)
(* and the file-upload variant (src/unnamed/part_001).  A run is one       *)
(* process: its command line (argv) and its environment (world: variables, *)
(* files, ffmpeg, the HTTP server's answer) are fixed when it starts, and  *)
(* every stage of main is one action.  Strings are sequences of one-       *)
(* character strings (valid text), so trimming, suffix removal, extension  *)
(* extraction and URL formatting are computed, not assumed.                *)
(***************************************************************************)
EXTENDS Integers, Sequences, FiniteSets, TLC

VARIABLES
    prog,          \* which program runs: "main" (main.go) or "upload" (part_001)
    argv,          \* the command line, as flag.Parse will see it
    world,         \* the environment of the run
    pc,            \* position in main
    inputFile, apiKey, model, baseURL, prompt, outputJSON, verbose,  \* main's flag variables
    audioData, mimeType,     \* prepareAudio's results
    transcription,           \* transcribe's result
    fileURI,                 \* upload variant: uploadResp.File.URI
    resp,          \* the parsed response body held by transcribe, <<>> before
    requests,      \* HTTP requests issued so far
    fileReads,     \* os.ReadFile calls on the input file so far
    keyFileReads,  \* paths of key files read so far
    ffmpegRuns,    \* ffmpeg processes started so far
    stdout,        \* what was written to standard output
    stderr,        \* lines written to standard error
    exited,        \* the process has ended
    exitCode       \* its exit status (meaningful once exited)

locals == <<inputFile, apiKey, model, baseURL, prompt, outputJSON, verbose>>
results == <<audioData, mimeType, transcription, fileURI, resp>>
effects == <<requests, fileReads, keyFileReads, ffmpegRuns>>
ends == <<stdout, stderr, exited, exitCode>>
vars == <<prog, argv, world, pc, locals, results, effects, ends>>

---------------------------------------------------------------------------
(* Bounds of the model *)

MaxKeyLen == 2       \* longest key-file content
MaxSlashes == 2      \* most trailing slashes of a base URL value
MaxTextLen == 2      \* longest part text in a response

---------------------------------------------------------------------------
(* Strings *)

SeqsUpTo(S, n) == UNION { [1..k -> S] : k \in 0..n }

IsSpace(c) == c \in {" ", "\t", "\n", "\r"}

RECURSIVE TrimLeftSpace(_)
TrimLeftSpace(s) ==
    IF s # <<>> /\ IsSpace(Head(s)) THEN TrimLeftSpace(Tail(s)) ELSE s

RECURSIVE TrimRightSpace(_)
TrimRightSpace(s) ==
    IF s # <<>> /\ IsSpace(s[Len(s)])
    THEN TrimRightSpace(SubSeq(s, 1, Len(s) - 1))
    ELSE s

\* strings.TrimSpace
TrimSpace(s) == TrimRightSpace(TrimLeftSpace(s))

\* strings.HasSuffix
HasSuffix(s, suf) ==
    /\ Len(s) >= Len(suf)
    /\ SubSeq(s, Len(s) - Len(suf) + 1, Len(s)) = suf

\* strings.TrimSuffix: removes suf once
TrimSuffix(s, suf) ==
    IF HasSuffix(s, suf) THEN SubSeq(s, 1, Len(s) - Len(suf)) ELSE s

LowerOf(c) ==
    CASE c = "A" -> "a" [] c = "C" -> "c" [] c = "K" -> "k" [] c = "M" -> "m"
      [] c = "P" -> "p" [] c = "V" -> "v" [] c = "W" -> "w"
      [] OTHER -> c

\* strings.ToLower
ToLower(s) == [i \in 1..Len(s) |-> LowerOf(s[i])]

\* filepath.Ext: the suffix from the final dot of the final path element
RECURSIVE ExtFrom(_, _)
ExtFrom(path, i) ==
    IF i < 1 \/ path[i] = "/" THEN <<>>
    ELSE IF path[i] = "." THEN SubSeq(path, i, Len(path))
    ELSE ExtFrom(path, i - 1)

Ext(path) == ExtFrom(path, Len(path))

\* s occurs in t as a contiguous piece
Contains(t, s) ==
    \E i \in 0..(Len(t) - Len(s)) : SubSeq(t, i + 1, i + Len(s)) = s

Digit(d) ==
    CASE d = 0 -> "0" [] d = 1 -> "1" [] d = 2 -> "2" [] d = 3 -> "3"
      [] d = 4 -> "4" [] d = 5 -> "5" [] d = 6 -> "6" [] d = 7 -> "7"
      [] d = 8 -> "8" [] d = 9 -> "9"

\* the %d verb
RECURSIVE Itoa(_)
Itoa(n) ==
    IF n < 0 THEN <<"-">> \o Itoa(0 - n)
    ELSE IF n < 10 THEN <<Digit(n)>>
    ELSE Itoa(n \div 10) \o <<Digit(n % 10)>>

---------------------------------------------------------------------------
(* main.go: constants and pure functions *)

defaultModel == <<"gemini-2.5-flash">>
defaultBaseURL == <<"https://generativelanguage.googleapis.com">>
defaultPrompt == <<"Transcribe this audio accurately. Output only the transcription, no extra commentary.">>

\* fmt.Sprintf(apiURLTemplate, baseURL, model, apiKey)
apiURL(base, mdl, key) ==
    base \o <<"/v1beta/models/">> \o mdl \o <<":generateContent?key=">> \o key

mimeTypes ==
    { << <<".", "m", "p", "3">>, "audio/mpeg" >>,
      << <<".", "w", "a", "v">>, "audio/wav" >>,
      << <<".", "o", "g", "g">>, "audio/ogg" >>,
      << <<".", "f", "l", "a", "c">>, "audio/flac" >>,
      << <<".", "m", "4", "a">>, "audio/mp4" >>,
      << <<".", "a", "a", "c">>, "audio/aac" >>,
      << <<".", "m", "p", "4">>, "video/mp4" >>,
      << <<".", "w", "e", "b", "m">>, "video/webm" >>,
      << <<".", "m", "o", "v">>, "video/quicktime" >>,
      << <<".", "a", "v", "i">>, "video/x-msvideo" >>,
      << <<".", "m", "k", "v">>, "video/x-matroska" >> }

getMimeType(ext) ==
    IF \E e \in mimeTypes : e[1] = ext
    THEN (CHOOSE e \in mimeTypes : e[1] = ext)[2]
    ELSE "application/octet-stream"

audioExts ==
    { <<".", "m", "p", "3">>, <<".", "w", "a", "v">>, <<".", "o", "g", "g">>,
      <<".", "f", "l", "a", "c">>, <<".", "m", "4", "a">>, <<".", "a", "a", "c">> }

\* 20*1024*1024, the size below which an audio file is sent as it is
directLimit == 20 * 1024 * 1024

\* the mp3 that ffmpeg writes to the temporary file for some input bytes
Mp3Of(bytes) == <<"mp3">> \o bytes

\* base64.StdEncoding.EncodeToString
Base64(bytes) == <<"base64">> \o bytes

\* json.MarshalIndent of a string value: quoted, with its escapes
RECURSIVE JSONEscape(_)
JSONEscape(s) ==
    IF s = <<>> THEN <<>>
    ELSE LET c == Head(s)
             e == CASE c = "\"" -> <<"\\", "\"">>
                    [] c = "\\" -> <<"\\", "\\">>
                    [] c = "\n" -> <<"\\", "n">>
                    [] c = "\t" -> <<"\\", "t">>
                    [] c = "\r" -> <<"\\", "r">>
                    [] OTHER -> <<c>>
         IN  e \o JSONEscape(Tail(s))

JSONQuote(s) == <<"\"">> \o JSONEscape(s) \o <<"\"">>

\* json.MarshalIndent(map[string]string{...}): the members, sorted by key
MarshalResult(text, mdl, file) ==
    << <<"file", JSONQuote(file)>>,
       <<"model", JSONQuote(mdl)>>,
       <<"transcription", JSONQuote(text)>> >>

OsReadable(w) == w.file = "present" /\ w.readOk

\* useDirectly without the extension test
useDirectlyAnyExt(ext, w) ==
    w.file = "present" /\ w.size < directLimit

\* useDirectly with the size compared by <=
useDirectlyLE(ext, w) ==
    ext \in audioExts /\ w.file = "present" /\ w.size <= directLimit

\* lines 192-194: an audio format Gemini accepts, and os.Stat says under 20MB
useDirectly(ext, w) ==
    ext \in audioExts /\ w.file = "present" /\ w.size < directLimit

\* prepareAudio(inputFile, verbose) in the environment w: what it returns
\* (data, mime, err; err = <<>> is nil) and what it did on the way
\* (ffmpeg opens the input itself: it fails on a file that cannot be read)
prepareAudio(file, vb, w) ==
    LET ext == ToLower(Ext(file))
        fail(e, rd, runs, log) ==
            [data |-> <<>>, mime |-> "", err |-> e, reads |-> rd, runs |-> runs, log |-> log]
        ok(d, m, rd, runs, log) ==
            [data |-> d, mime |-> m, err |-> <<>>, reads |-> rd, runs |-> runs, log |-> log]
        readErr == <<"open: cannot read input file">>
        logDirect == IF vb THEN << <<"ffmpeg not found, reading file directly...">> >> ELSE <<>>
        logConvert == IF vb THEN << <<"Converting to mp3 with ffmpeg...">> >> ELSE <<>>
    IN  IF ~w.ffmpegOnPath
        THEN IF OsReadable(w)
             THEN ok(w.content, getMimeType(ext), 1, 0, logDirect)
             ELSE fail(readErr, 1, 0, logDirect)
        ELSE IF useDirectly(ext, w)
        THEN IF OsReadable(w)
             THEN ok(w.content, getMimeType(ext), 1, 0, <<>>)
             ELSE fail(readErr, 1, 0, <<>>)
        ELSE IF ~w.createTempOk
        THEN fail(<<"CreateTemp failed">>, 0, 0, logConvert)
        ELSE IF ~(w.ffmpegOk /\ OsReadable(w))
        THEN fail(<<"ffmpeg failed: ", "exit status 1", "\n", "stderr of ffmpeg">>, 0, 1, logConvert)
        ELSE IF ~w.readTmpOk
        THEN fail(<<"open: cannot read temporary file">>, 0, 1, logConvert)
        ELSE ok(Mp3Of(w.content), "audio/mpeg", 0, 1, logConvert)

\* the body of the request transcribe builds
GeminiRequest(mime, data, p) ==
    [inline_data |-> [mime_type |-> mime, data |-> Base64(data)], text |-> p]

\* transcribeResult without the test for an empty answer
transcribeResultNoEmptyTest(r) ==
    IF ~r.parsed
    THEN [text |-> <<>>, err |-> <<"failed to parse response: ", "unmarshal error", "\nBody: ", "body">>]
    ELSE IF r.error # <<>>
    THEN [text |-> <<>>,
          err |-> <<"API error (">> \o Itoa(r.error[1].code) \o <<"): ">> \o r.error[1].message]
    ELSE IF Len(r.candidates) = 0 \/ Len(r.candidates[1]) = 0
    THEN [text |-> <<>>, err |-> <<>>]
    ELSE [text |-> TrimSpace(r.candidates[1][1]), err |-> <<>>]

\* transcribeResult without strings.TrimSpace
transcribeResultNoTrim(r) ==
    IF ~r.parsed
    THEN [text |-> <<>>, err |-> <<"failed to parse response: ", "unmarshal error", "\nBody: ", "body">>]
    ELSE IF r.error # <<>>
    THEN [text |-> <<>>,
          err |-> <<"API error (">> \o Itoa(r.error[1].code) \o <<"): ">> \o r.error[1].message]
    ELSE IF Len(r.candidates) = 0 \/ Len(r.candidates[1]) = 0
    THEN [text |-> <<>>, err |-> <<"no transcription in response">>]
    ELSE [text |-> r.candidates[1][1], err |-> <<>>]

\* transcribeResult looking at the candidates before the error object
transcribeResultCandidatesFirst(r) ==
    IF ~r.parsed
    THEN [text |-> <<>>, err |-> <<"failed to parse response: ", "unmarshal error", "\nBody: ", "body">>]
    ELSE IF Len(r.candidates) > 0 /\ Len(r.candidates[1]) > 0
    THEN [text |-> TrimSpace(r.candidates[1][1]), err |-> <<>>]
    ELSE IF r.error # <<>>
    THEN [text |-> <<>>,
          err |-> <<"API error (">> \o Itoa(r.error[1].code) \o <<"): ">> \o r.error[1].message]
    ELSE [text |-> <<>>, err |-> <<"no transcription in response">>]

\* transcribe, after the body was read: the (text, err) it returns for a body
\* that json.Unmarshal turned into r (r.parsed is FALSE when Unmarshal failed)
transcribeResult(r) ==
    IF ~r.parsed
    THEN [text |-> <<>>, err |-> <<"failed to parse response: ", "unmarshal error", "\nBody: ", "body">>]
    ELSE IF r.error # <<>>
    THEN [text |-> <<>>,
          err |-> <<"API error (">> \o Itoa(r.error[1].code) \o <<"): ">> \o r.error[1].message]
    ELSE IF Len(r.candidates) = 0 \/ Len(r.candidates[1]) = 0
    THEN [text |-> <<>>, err |-> <<"no transcription in response">>]
    ELSE [text |-> TrimSpace(r.candidates[1][1]), err |-> <<>>]

---------------------------------------------------------------------------
(* main.go: the run *)

usage == <<"gemini-transcribe - Transcribe audio/video using Gemini API ... (usage)">>

Exit(code, lines) ==
    /\ stderr' = stderr \o lines
    /\ exited' = TRUE
    /\ exitCode' = code
    /\ pc' = "exited"

\* lines 66-93: the flags and flag.Parse().  The flags are registered on
\* flag.CommandLine, whose error handling is ExitOnError: -h or -help prints
\* the usage and exits 0, any other parse error prints it and exits 2.
Parse ==
    /\ prog = "main" /\ pc = "parse"
    /\ \/ /\ argv.parse = "help"
          /\ Exit(0, <<usage>>)
          /\ UNCHANGED <<locals, stdout>>
       \/ /\ argv.parse = "bad"
          /\ Exit(2, << <<"flag provided but not defined">>, usage >>)
          /\ UNCHANGED <<locals, stdout>>
       \/ /\ argv.parse = "ok"
          /\ inputFile' = argv.i
          /\ apiKey' = argv.k
          /\ model' = argv.m
          /\ baseURL' = argv.b
          /\ prompt' = argv.p
          /\ outputJSON' = argv.json
          /\ verbose' = argv.v
          /\ pc' = "key"
          /\ UNCHANGED ends
    /\ UNCHANGED <<prog, argv, world, results, effects>>

HomeKeyFile == "~/.config/gemini/api_key"
RelKeyFile == ".config/gemini/api_key"

\* os.ReadFile of a key file: <<content>> when it can be read, <<>> otherwise
ReadKeyFile(w, path) ==
    IF path = HomeKeyFile THEN w.homeKeyFile ELSE w.relKeyFile

\* resolveKey without strings.TrimSpace
resolveKeyNoTrim(flagKey, w) ==
    IF flagKey # <<>> THEN [key |-> flagKey, read |-> <<>>]
    ELSE IF w.envKey # <<>> THEN [key |-> w.envKey, read |-> <<>>]
    ELSE IF ~w.homeOk THEN [key |-> <<>>, read |-> <<>>]
    ELSE IF ReadKeyFile(w, HomeKeyFile) = <<>> THEN [key |-> <<>>, read |-> <<HomeKeyFile>>]
    ELSE [key |-> ReadKeyFile(w, HomeKeyFile)[1], read |-> <<HomeKeyFile>>]

\* lines 95-107: the key main goes on with, and the key files it read
resolveKey(flagKey, w) ==
    IF flagKey # <<>> THEN [key |-> flagKey, read |-> <<>>]
    ELSE IF w.envKey # <<>> THEN [key |-> w.envKey, read |-> <<>>]
    ELSE IF ~w.homeOk THEN [key |-> <<>>, read |-> <<>>]
    ELSE IF ReadKeyFile(w, HomeKeyFile) = <<>> THEN [key |-> <<>>, read |-> <<HomeKeyFile>>]
    ELSE [key |-> TrimSpace(ReadKeyFile(w, HomeKeyFile)[1]), read |-> <<HomeKeyFile>>]

ErrKeyRequired ==
    <<"Error: API key required. Use -k flag, set GEMINI_API_KEY, or store in ~/.config/gemini/api_key">>

\* ResolveKey without the exit on an empty key
ResolveKeyNoExit ==
    /\ prog = "main" /\ pc = "key"
    /\ LET r == resolveKey(apiKey, world)
       IN  /\ apiKey' = r.key
           /\ keyFileReads' = keyFileReads \o r.read
           /\ pc' = "base"
    /\ UNCHANGED <<prog, argv, world, inputFile, model, baseURL, prompt, outputJSON, verbose,
                   results, requests, fileReads, ffmpegRuns, ends>>

\* lines 95-111
ResolveKey ==
    /\ prog = "main" /\ pc = "key"
    /\ LET r == resolveKey(apiKey, world)
       IN  /\ apiKey' = r.key
           /\ keyFileReads' = keyFileReads \o r.read
           /\ IF r.key = <<>>
              THEN Exit(1, <<ErrKeyRequired>>)
              ELSE pc' = "base" /\ UNCHANGED <<stderr, exited, exitCode>>
    /\ UNCHANGED <<prog, argv, world, inputFile, model, baseURL, prompt, outputJSON, verbose,
                   results, requests, fileReads, ffmpegRuns, stdout>>

\* resolveBaseURL with the environment taking precedence over the flag
resolveBaseURLEnvFirst(flagBase, w) ==
    LET chosen == IF w.envBase # <<>> THEN w.envBase
                  ELSE IF flagBase # <<>> THEN flagBase
                  ELSE defaultBaseURL
    IN  TrimSuffix(chosen, <<"/">>)

\* lines 113-121: the base URL main goes on with
resolveBaseURL(flagBase, w) ==
    LET chosen == IF flagBase # <<>> THEN flagBase
                  ELSE IF w.envBase # <<>> THEN w.envBase
                  ELSE defaultBaseURL
    IN  TrimSuffix(chosen, <<"/">>)

ResolveBaseURL ==
    /\ prog = "main" /\ pc = "base"
    /\ baseURL' = resolveBaseURL(baseURL, world)
    /\ pc' = "input"
    /\ UNCHANGED <<prog, argv, world, inputFile, apiKey, model, prompt, outputJSON, verbose,
                   results, effects, ends>>

\* lines 123-133
ValidateInput ==
    /\ prog = "main" /\ pc = "input"
    /\ IF inputFile = <<>>
       THEN Exit(1, << <<"Error: Input file required. Use -i flag">>, usage >>)
       ELSE IF world.file = "missing"
       THEN Exit(1, << <<"Error: File not found: ">> \o inputFile >>)
       ELSE pc' = "prepare" /\ UNCHANGED <<stderr, exited, exitCode>>
    /\ UNCHANGED <<prog, argv, world, locals, results, effects, stdout>>

\* lines 135-145
PrepareAudio ==
    /\ prog = "main" /\ pc = "prepare"
    /\ LET r == prepareAudio(inputFile, verbose, world)
       IN  /\ audioData' = r.data
           /\ mimeType' = r.mime
           /\ fileReads' = fileReads + r.reads
           /\ ffmpegRuns' = ffmpegRuns + r.runs
           /\ IF r.err # <<>>
              THEN Exit(1, r.log \o << <<"Error preparing audio: ">> \o r.err >>)
              ELSE /\ pc' = "post"
                   /\ stderr' = stderr \o r.log \o
                        (IF verbose
                         THEN << <<"Audio size: ", "len", " bytes, MIME: ", r.mime>>,
                                 <<"Sending to Gemini (">> \o model \o <<")...">> >>
                         ELSE <<>>)
                   /\ UNCHANGED <<exited, exitCode>>
    /\ UNCHANGED <<prog, argv, world, locals, transcription, fileURI, resp,
                   requests, keyFileReads, stdout>>

\* lines 147-152 with 263-292: transcribe builds the request and posts it
TranscribePost ==
    /\ prog = "main" /\ pc = "post"
    /\ requests' = Append(requests,
            [url |-> apiURL(baseURL, model, apiKey),
             body |-> GeminiRequest(mimeType, audioData, prompt)])
    /\ IF world.http.kind = "transportErr"
       THEN Exit(1, << <<"Error transcribing: ", "Post: connection failed">> >>)
       ELSE pc' = "response" /\ UNCHANGED <<stderr, exited, exitCode>>
    /\ UNCHANGED <<prog, argv, world, locals, results, fileReads, keyFileReads,
                   ffmpegRuns, stdout>>

\* lines 293-313 with 148-152: the body is read and parsed, transcribe returns
TranscribeResponse ==
    /\ prog = "main" /\ pc = "response"
    /\ IF world.http.kind = "readErr"
       THEN /\ Exit(1, << <<"Error transcribing: ", "unexpected EOF">> >>)
            /\ UNCHANGED <<transcription, resp>>
       ELSE LET r == transcribeResult(world.http.body)
            IN  /\ resp' = <<world.http.body>>
                /\ IF r.err # <<>>
                   THEN /\ Exit(1, << <<"Error transcribing: ">> \o r.err >>)
                        /\ UNCHANGED transcription
                   ELSE /\ transcription' = r.text
                        /\ pc' = "output"
                        /\ UNCHANGED <<stderr, exited, exitCode>>
    /\ UNCHANGED <<prog, argv, world, locals, audioData, mimeType, fileURI, effects, stdout>>

\* lines 154-166: fmt.Println of the result, then main returns
Output ==
    /\ prog = "main" /\ pc = "output"
    /\ stdout' = Append(stdout,
            IF outputJSON
            THEN [json |-> TRUE, text |-> <<>>,
                  members |-> MarshalResult(transcription, model, inputFile)]
            ELSE [json |-> FALSE, text |-> transcription, members |-> <<>>])
    /\ exited' = TRUE
    /\ exitCode' = 0
    /\ pc' = "exited"
    /\ UNCHANGED <<prog, argv, world, locals, results, effects, stderr>>

Next ==
    \/ Parse
    \/ ResolveKey
    \/ ResolveBaseURL
    \/ ValidateInput
    \/ PrepareAudio
    \/ TranscribePost
    \/ TranscribeResponse
    \/ Output

---------------------------------------------------------------------------
(* The file-upload variant (src/unnamed/part_001) *)

\* getAPIKey(flagKey): flag > env > config file.  The error of os.UserHomeDir
\* is dropped, so without a home directory the path is relative.
getAPIKey(flagKey, w) ==
    LET keyFile == IF w.homeOk THEN HomeKeyFile ELSE RelKeyFile
    IN  IF flagKey # <<>> THEN [key |-> flagKey, read |-> <<>>]
        ELSE IF w.envKey # <<>> THEN [key |-> w.envKey, read |-> <<>>]
        ELSE IF ReadKeyFile(w, keyFile) = <<>> THEN [key |-> <<>>, read |-> <<keyFile>>]
        ELSE [key |-> TrimSpace(ReadKeyFile(w, keyFile)[1]), read |-> <<keyFile>>]

uploadURL(key) ==
    <<"https://generativelanguage.googleapis.com/upload/v1beta/files?key=">> \o key

genURL(mdl, key) ==
    <<"https://generativelanguage.googleapis.com/v1beta/models/">> \o mdl
        \o <<":generateContent?key=">> \o key

\* lines 52-63: the variant defines -i -k -m -p -json -v only
UParse ==
    /\ prog = "upload" /\ pc = "parse"
    /\ \/ /\ argv.parse = "help"
          /\ Exit(0, << <<"Usage of gemini-transcribe:">> >>)
          /\ UNCHANGED <<locals, stdout>>
       \/ /\ argv.parse = "bad" \/ (argv.parse = "ok" /\ argv.b # <<>>)
          /\ Exit(2, << <<"flag provided but not defined">>, <<"Usage of gemini-transcribe:">> >>)
          /\ UNCHANGED <<locals, stdout>>
       \/ /\ argv.parse = "ok" /\ argv.b = <<>>
          /\ inputFile' = argv.i
          /\ apiKey' = argv.k
          /\ model' = argv.m
          /\ prompt' = argv.p
          /\ outputJSON' = argv.json
          /\ verbose' = argv.v
          /\ UNCHANGED baseURL
          /\ IF argv.i = <<>>
             THEN Exit(1, << <<"Usage: gemini-transcribe -i <audio-file>">> >>)
             ELSE pc' = "key" /\ UNCHANGED <<stderr, exited, exitCode>>
          /\ UNCHANGED stdout
    /\ UNCHANGED <<prog, argv, world, results, effects>>

\* lines 65-69
UGetKey ==
    /\ prog = "upload" /\ pc = "key"
    /\ LET r == getAPIKey(apiKey, world)
       IN  /\ apiKey' = r.key
           /\ keyFileReads' = keyFileReads \o r.read
           /\ IF r.key = <<>>
              THEN Exit(1, << <<"Error: No API key. Set GEMINI_API_KEY or use -k flag or store in ~/.config/gemini/api_key">> >>)
              ELSE pc' = "read" /\ UNCHANGED <<stderr, exited, exitCode>>
    /\ UNCHANGED <<prog, argv, world, inputFile, model, baseURL, prompt, outputJSON, verbose,
                   results, requests, fileReads, ffmpegRuns, stdout>>

\* lines 71-81
UReadFile ==
    /\ prog = "upload" /\ pc = "read"
    /\ fileReads' = fileReads + 1
    /\ IF OsReadable(world)
       THEN /\ audioData' = world.content
            /\ pc' = "upload"
            /\ stderr' = stderr \o
                 (IF verbose THEN << <<"File: ">> \o inputFile, <<"Model: ">> \o model >> ELSE <<>>)
            /\ UNCHANGED <<exited, exitCode>>
       ELSE /\ Exit(1, << <<"Error reading file: ", "open: cannot read input file">> >>)
            /\ UNCHANGED audioData
    /\ UNCHANGED <<prog, argv, world, locals, mimeType, transcription, fileURI, resp,
                   requests, keyFileReads, ffmpegRuns, stdout>>

\* lines 83-119: the file is uploaded first
UUpload ==
    /\ prog = "upload" /\ pc = "upload"
    /\ requests' = Append(requests, [url |-> uploadURL(apiKey), body |-> audioData])
    /\ IF world.upload.kind = "transportErr"
       THEN /\ Exit(1, << <<"Upload error: ", "Post: connection failed">> >>)
            /\ UNCHANGED fileURI
       ELSE /\ fileURI' = world.upload.uri
            /\ IF world.upload.uri = <<>>
               THEN Exit(1, << <<"Upload failed: ", "rest of the body">> >>)
               ELSE /\ pc' = "generate"
                    /\ stderr' = stderr \o
                         (IF verbose THEN << <<"Uploaded: ">> \o world.upload.uri >> ELSE <<>>)
                    /\ UNCHANGED <<exited, exitCode>>
    /\ UNCHANGED <<prog, argv, world, locals, audioData, mimeType, transcription, resp,
                   fileReads, keyFileReads, ffmpegRuns, stdout>>

\* getMimeType(filename) of the variant
uploadMimeTypes ==
    { << <<".", "m", "p", "3">>, "audio/mp3" >>,
      << <<".", "w", "a", "v">>, "audio/wav" >>,
      << <<".", "o", "g", "g">>, "audio/ogg" >>,
      << <<".", "f", "l", "a", "c">>, "audio/flac" >>,
      << <<".", "m", "4", "a">>, "audio/m4a" >>,
      << <<".", "m", "p", "4">>, "video/mp4" >>,
      << <<".", "w", "e", "b", "m">>, "video/webm" >>,
      << <<".", "m", "o", "v">>, "video/quicktime" >> }

uploadGetMimeType(filename) ==
    LET ext == ToLower(Ext(filename))
    IN  IF \E e \in uploadMimeTypes : e[1] = ext
        THEN (CHOOSE e \in uploadMimeTypes : e[1] = ext)[2]
        ELSE "audio/mp3"

\* lines 121-166: then content is generated from the uploaded file.  The
\* error of Decode is dropped: a body that does not parse leaves genResp zero.
UGenerate ==
    /\ prog = "upload" /\ pc = "generate"
    /\ requests' = Append(requests,
            [url |-> genURL(model, apiKey),
             body |-> [file_data |-> [mime_type |-> uploadGetMimeType(inputFile),
                                      file_uri |-> fileURI],
                       text |-> prompt]])
    /\ IF world.http.kind = "transportErr"
       THEN /\ Exit(1, << <<"Generate error: ", "Post: connection failed">> >>)
            /\ UNCHANGED resp
       ELSE LET b == IF world.http.kind = "readErr" \/ ~world.http.body.parsed
                     THEN [parsed |-> FALSE, error |-> <<>>, candidates |-> <<>>]
                     ELSE world.http.body
            IN  /\ resp' = <<b>>
                /\ IF b.error # <<>> /\ b.error[1].message # <<>>
                   THEN Exit(1, << <<"API Error: ">> \o b.error[1].message >>)
                   ELSE pc' = "output" /\ UNCHANGED <<stderr, exited, exitCode>>
    /\ UNCHANGED <<prog, argv, world, locals, audioData, mimeType, transcription, fileURI,
                   fileReads, keyFileReads, ffmpegRuns, stdout>>

\* lines 168-179
UOutput ==
    /\ prog = "upload" /\ pc = "output"
    /\ LET c == resp[1].candidates
       IN  IF Len(c) > 0 /\ Len(c[1]) > 0
           THEN /\ transcription' = c[1][1]
                /\ stdout' = Append(stdout,
                       IF outputJSON
                       THEN [json |-> TRUE, text |-> <<>>,
                             members |-> << <<"transcript", JSONQuote(c[1][1])>> >>]
                       ELSE [json |-> FALSE, text |-> c[1][1], members |-> <<>>])
                /\ exited' = TRUE
                /\ exitCode' = 0
                /\ pc' = "exited"
                /\ UNCHANGED stderr
           ELSE /\ Exit(1, << <<"No transcription returned">> >>)
                /\ UNCHANGED <<transcription, stdout>>
    /\ UNCHANGED <<prog, argv, world, locals, audioData, mimeType, fileURI, resp, effects>>

NextUpload ==
    \/ UParse
    \/ UGetKey
    \/ UReadFile
    \/ UUpload
    \/ UGenerate
    \/ UOutput

NextRepo == Next \/ NextUpload

---------------------------------------------------------------------------
(* The runs: command lines and environments *)

Slashes(n) == [i \in 1..n |-> "/"]

KnownExts == { e[1] : e \in mimeTypes }

Names ==
    { <<"a">> \o e : e \in KnownExts }
    \cup { <<"a", ".", "M", "P", "3">>, <<"a", ".", "W", "a", "v">>,
           <<"a", ".", "M", "K", "V">>,
           <<"a", ".", "t", "x", "t">>, <<"a">>,
           <<"d", ".", "m", "p", "3", "/", "a">>,
           <<"a", ".", "m", "p", "3", ".", "m", "p", "4">> }

NameMp3 == <<"a", ".", "m", "p", "3">>
NameMp4 == <<"a", ".", "m", "p", "4">>

KeyChars == {"k", " ", "\n"}
KeyFiles == {<<>>} \cup { <<c>> : c \in SeqsUpTo(KeyChars, MaxKeyLen) }

FlagBases == { st \o Slashes(n) : st \in {<<>>, <<"u">>}, n \in 0..MaxSlashes }
EnvBases == { st \o Slashes(n) : st \in {<<>>, <<"e">>}, n \in 0..MaxSlashes }

TextChars == {"x", " ", "\""}
Texts == SeqsUpTo(TextChars, MaxTextLen)
OtherText == <<"o", "t", "h", "e", "r">>
PartLists == {<<>>} \cup { <<t>> : t \in Texts } \cup { <<t, OtherText>> : t \in Texts }
Candidates ==
    {<<>>} \cup { <<p>> : p \in PartLists } \cup { <<p, <<OtherText>> >> : p \in PartLists }
ApiErrors ==
    { <<>>,
      <<[code |-> 0, message |-> <<>>]>>,
      <<[code |-> 400, message |-> <<"q", "u", "o", "t", "a">>]>>,
      <<[code |-> 503, message |-> <<" ", "x", " ">>]>> }
Bodies ==
    { [parsed |-> FALSE, error |-> <<>>, candidates |-> <<>>] }
    \cup { [parsed |-> TRUE, error |-> e, candidates |-> c] : e \in ApiErrors, c \in Candidates }
Body0 == [parsed |-> TRUE, error |-> <<>>, candidates |-> << << <<" ", "x">> >> >>]
Https ==
    { [kind |-> k, status |-> 0, body |-> Body0] : k \in {"transportErr", "readErr"} }
    \cup { [kind |-> "body", status |-> st, body |-> b] : st \in {200, 400}, b \in Bodies }
Http0 == [kind |-> "body", status |-> 200, body |-> Body0]

Sizes == {0, 20971519, 20971520, 20971521}

Argv0 ==
    [parse |-> "ok", i |-> NameMp3, k |-> <<"F">>, m |-> defaultModel, b |-> <<>>,
     p |-> defaultPrompt, json |-> FALSE, v |-> FALSE]

World0 ==
    [envKey |-> <<>>, envBase |-> <<>>, homeOk |-> TRUE, homeKeyFile |-> <<>>,
     relKeyFile |-> <<>>, file |-> "present", size |-> 0, readOk |-> TRUE,
     content |-> <<"input bytes">>, ffmpegOnPath |-> TRUE, createTempOk |-> TRUE,
     ffmpegOk |-> TRUE, readTmpOk |-> TRUE, http |-> Http0,
     upload |-> [kind |-> "body", uri |-> <<"files/1">>]]

\* runs that differ in where the key may come from
KeyRuns ==
    { << [Argv0 EXCEPT !.k = fk, !.i = f],
         [World0 EXCEPT !.envKey = ek, !.homeOk = h, !.homeKeyFile = kf, !.relKeyFile = rf] >> :
      fk \in {<<>>, <<"F">>, <<" ">>}, f \in {<<>>, NameMp3}, ek \in {<<>>, <<"E">>},
      h \in BOOLEAN, kf \in KeyFiles, rf \in {<<>>, << <<"r">> >>} }

\* runs that differ in where the base URL may come from
UrlRuns ==
    { << [Argv0 EXCEPT !.b = fb, !.m = m], [World0 EXCEPT !.envBase = eb] >> :
      fb \in FlagBases, eb \in EnvBases, m \in {defaultModel, <<"g", "2">>} }

\* runs that differ in the input file and in what preparing it meets
AudioRuns ==
    { << [Argv0 EXCEPT !.i = f],
         [World0 EXCEPT !.file = st, !.size = sz, !.readOk = r, !.ffmpegOnPath = fp,
                        !.createTempOk = ct, !.ffmpegOk = fo, !.readTmpOk = rt] >> :
      f \in Names, st \in {"staterr", "present"}, sz \in Sizes, r \in BOOLEAN,
      fp \in BOOLEAN, ct \in BOOLEAN, fo \in BOOLEAN, rt \in BOOLEAN }

\* runs that differ in the answer of the server
HttpRuns ==
    { << [Argv0 EXCEPT !.json = j, !.m = mf[1], !.i = mf[2]], [World0 EXCEPT !.http = h] >> :
      j \in BOOLEAN, mf \in { <<defaultModel, NameMp3>>, <<<<"g", "\"">>, <<"a", "\\", "b">>>> },
      h \in Https }

QuotaError == <<[code |-> 400, message |-> <<"q", "u", "o", "t", "a">>]>>
StageHttps ==
    { [kind |-> k, status |-> 0, body |-> Body0] : k \in {"transportErr", "readErr"} }
    \cup { [kind |-> "body", status |-> 200, body |-> b] :
             b \in { x \in Bodies : /\ x.candidates \in {<<>>, Body0.candidates}
                                    /\ x.error \in {<<>>, QuotaError} } }

\* runs that differ in the command line and in which stage fails
StageRuns ==
    { << [Argv0 EXCEPT !.i = f, !.k = fk, !.json = j, !.v = vb],
         [World0 EXCEPT !.file = st, !.ffmpegOnPath = fp, !.http = h] >> :
      f \in {<<>>, NameMp3, NameMp4}, fk \in {<<>>, <<"F">>},
      j \in BOOLEAN, vb \in BOOLEAN, st \in {"missing", "staterr", "present"},
      fp \in BOOLEAN, h \in StageHttps }

\* runs that differ in what flag.Parse makes of the command line
ParseRuns ==
    { << [Argv0 EXCEPT !.parse = ps, !.i = f, !.k = fk, !.json = j, !.v = vb],
         [World0 EXCEPT !.file = st] >> :
      ps \in {"ok", "help", "bad"}, f \in {<<>>, NameMp3}, fk \in {<<>>, <<"F">>},
      j \in BOOLEAN, vb \in BOOLEAN, st \in {"missing", "present"} }

\* runs that differ in what the upload endpoint answers
UploadRuns ==
    { << [Argv0 EXCEPT !.json = j, !.v = vb, !.b = fb],
         [World0 EXCEPT !.readOk = r, !.upload = u, !.http = h] >> :
      j \in BOOLEAN, vb \in BOOLEAN, fb \in {<<>>, <<"u">>}, r \in BOOLEAN,
      u \in { [kind |-> "transportErr", uri |-> <<>>], [kind |-> "body", uri |-> <<>>],
              [kind |-> "body", uri |-> <<"files/1">>] },
      h \in StageHttps }

Runs == UploadRuns \cup KeyRuns \cup UrlRuns \cup AudioRuns \cup HttpRuns \cup StageRuns \cup ParseRuns

Start(p) ==
    /\ prog = p
    /\ \E r \in Runs : argv = r[1] /\ world = r[2]
    /\ pc = "parse"
    /\ inputFile = <<>> /\ apiKey = <<>> /\ model = <<>> /\ baseURL = <<>> /\ prompt = <<>>
    /\ outputJSON = FALSE /\ verbose = FALSE
    /\ audioData = <<>> /\ mimeType = "" /\ transcription = <<>> /\ fileURI = <<>>
    /\ resp = <<>>
    /\ requests = <<>> /\ fileReads = 0 /\ keyFileReads = <<>> /\ ffmpegRuns = 0
    /\ stdout = <<>> /\ stderr = <<>> /\ exited = FALSE /\ exitCode = 0

Init == Start("main")

Spec == Init /\ [][Next]_vars

\* both programs of the repository
InitRepo == Start("main") \/ Start("upload")

SpecRepo == InitRepo /\ [][NextRepo]_vars

---------------------------------------------------------------------------
(* What the claims speak of *)

\* main (of either program) got past resolving the key
PastKey ==
    /\ argv.parse = "ok" /\ pc \notin {"parse", "key"}
    /\ prog = "upload" => argv.b = <<>> /\ argv.i # <<>>

\* ~/.config/gemini/api_key as the run can see it: <<content>>, or <<>>
ConfigFile == IF world.homeOk THEN world.homeKeyFile ELSE <<>>

StripSpace(s) ==
    LET keep == { i \in 1..Len(s) : s[i] \notin {" ", "\t", "\n", "\r"} }
    IN  IF keep = {} THEN <<>>
        ELSE SubSeq(s, CHOOSE i \in keep : \A j \in keep : i <= j,
                       CHOOSE i \in keep : \A j \in keep : i >= j)

ExpectedKey ==
    IF argv.k # <<>> THEN argv.k
    ELSE IF world.envKey # <<>> THEN world.envKey
    ELSE IF ConfigFile # <<>> THEN StripSpace(ConfigFile[1])
    ELSE <<>>

ErrorPrefixes ==
    { "Error: API key required. Use -k flag, set GEMINI_API_KEY, or store in ~/.config/gemini/api_key",
      "Error: Input file required. Use -i flag", "Error: File not found: ",
      "Error preparing audio: ", "Error transcribing: ", "flag provided but not defined" }

HasErrorLine == \E i \in 1..Len(stderr) : stderr[i][1] \in ErrorPrefixes

\* one of the failures the run met, told from its inputs and from what it did
MetFailure ==
    \/ argv.parse = "bad"
    \/ argv.parse = "ok" /\ ExpectedKey = <<>>
    \/ argv.parse = "ok" /\ argv.i = <<>>
    \/ argv.parse = "ok" /\ world.file = "missing"
    \/ fileReads > 0 /\ ~(world.file = "present" /\ world.readOk)
    \/ ffmpegRuns > 0 /\ ~(world.ffmpegOk /\ world.file = "present" /\ world.readOk)
    \/ ffmpegRuns > 0 /\ ~world.readTmpOk
    \/ requests # <<>> /\ world.http.kind \in {"transportErr", "readErr"}
    \/ requests # <<>> /\ ~world.http.body.parsed
    \/ requests # <<>> /\ world.http.body.error # <<>>
    \/ requests # <<>> /\ world.http.body.candidates = <<>>
    \/ requests # <<>> /\ world.http.body.candidates # <<>>
                       /\ world.http.body.candidates[1] = <<>>

FailuresAreReported ==
    exited /\ (MetFailure \/ stdout = <<>>) =>
        exitCode # 0 /\ HasErrorLine /\ stdout = <<>>

\* C2 as stated: a failing run ends with an error on standard error, a
\* non-zero status and an empty standard output, and status zero is only
\* reached with a transcription printed.
C2_ZeroOnlyIfPrinted ==
    /\ exited /\ MetFailure => exitCode # 0 /\ HasErrorLine /\ stdout = <<>>
    /\ exited /\ exitCode = 0 => Len(stdout) = 1

\* C2 amended: the same, except that a help request (-h, -help) prints the
\* usage to standard error and exits with status zero, printing nothing to
\* standard output.
C2_ZeroOnlyIfPrintedOrHelp ==
    /\ exited /\ argv.parse # "help" /\ (MetFailure \/ stdout = <<>>) =>
          exitCode # 0 /\ HasErrorLine /\ stdout = <<>>
    /\ exited /\ exitCode = 0 =>
          \/ Len(stdout) = 1 /\ argv.parse = "ok"
          \/ argv.parse = "help" /\ stdout = <<>> /\ stderr = <<usage>>
    /\ exited /\ exitCode # 0 => stdout = <<>> /\ HasErrorLine

C2_Witness ==
    /\ exited /\ exitCode = 1 /\ ffmpegRuns = 1 /\ ~world.ffmpegOk
    /\ stdout = <<>> /\ HasErrorLine

StageOrder ==
    { <<"parse", "key">>, <<"key", "base">>, <<"base", "input">>, <<"input", "prepare">>,
      <<"prepare", "post">>, <<"post", "response">>, <<"response", "output">> }
    \cup { <<st, "exited">> : st \in {"parse", "key", "base", "input", "prepare", "post",
                                       "response", "output"} }

StagesInOrder ==
    /\ pc \in {"base", "input", "prepare", "post", "response", "output"} => apiKey # <<>>
    /\ pc \in {"prepare", "post", "response", "output"} => inputFile # <<>>
    /\ fileReads > 0 \/ ffmpegRuns > 0 => apiKey # <<>> /\ pc \notin {"parse", "key", "base", "input"}
    /\ pc \in {"post", "response", "output"} => mimeType # "" /\ audioData # <<>>
    /\ \A i \in 1..Len(requests) :
          /\ mimeType # "" /\ audioData # <<>>
          /\ requests[i].body.inline_data = [mime_type |-> mimeType, data |-> Base64(audioData)]
    /\ requests # <<>> => pc \notin {"parse", "key", "base", "input", "prepare", "post"}
    /\ pc = "output" \/ stdout # <<>> =>
          /\ Len(requests) = 1 /\ world.http.kind = "body"
          /\ resp # <<>> /\ resp[1].parsed
    /\ stdout # <<>> => exited

\* C3: the stages run in the order parse, key, (base URL, input check,)
\* prepare, POST, print, each only after the earlier ones succeeded: no file
\* read and no ffmpeg before a non-empty key, no POST before data and MIME
\* type are there, no output before a response that parsed.
C3_Pipeline ==
    /\ [](StagesInOrder)
    /\ [][pc' # pc => <<pc, pc'>> \in StageOrder]_vars
    /\ [][fileReads' # fileReads \/ ffmpegRuns' # ffmpegRuns => pc = "prepare" /\ apiKey # <<>>]_vars
    /\ [][requests' # requests => pc = "post" /\ mimeType # ""]_vars
    /\ [][stdout' # stdout => pc = "output" /\ resp # <<>> /\ resp[1].parsed]_vars

C3_Witness ==
    /\ exited /\ exitCode = 0 /\ Len(stdout) = 1 /\ Len(requests) = 1
    /\ ffmpegRuns = 1 /\ apiKey # <<>> /\ mimeType = "audio/mpeg"

\* C4 as stated: a run issues at most one HTTP request.
C4_AtMostOneRequest == Len(requests) <= 1

VideoExts ==
    { <<".", "m", "p", "4">>, <<".", "w", "e", "b", "m">>, <<".", "m", "o", "v">>,
      <<".", "a", "v", "i">>, <<".", "m", "k", "v">> }

VideoMimes == {"video/mp4", "video/webm", "video/quicktime", "video/x-msvideo", "video/x-matroska"}

IsVideoInput == ToLower(Ext(argv.i)) \in VideoExts

CarriesConversion(r) ==
    /\ r.body.inline_data.mime_type = "audio/mpeg"
    /\ r.body.inline_data.data = <<"base64", "mp3">> \o world.content

\* C5 as stated: for a video input every request carries ffmpeg's output as
\* audio/mpeg, never the raw video bytes with a video/* MIME type.
C5_VideoAlwaysConverted ==
    IsVideoInput => \A i \in 1..Len(requests) : CarriesConversion(requests[i])

\* C5 amended: for a video input, when ffmpeg is on PATH every request
\* carries ffmpeg's output as audio/mpeg; without ffmpeg the request carries
\* the raw bytes with the video/* MIME type of the extension.
C5_VideoConvertedWithFfmpeg ==
    IsVideoInput =>
        \A i \in 1..Len(requests) :
            /\ world.ffmpegOnPath => CarriesConversion(requests[i]) /\ ffmpegRuns = 1
            /\ ~world.ffmpegOnPath =>
                  /\ requests[i].body.inline_data.mime_type \in VideoMimes
                  /\ requests[i].body.inline_data.data = <<"base64">> \o world.content
                  /\ ffmpegRuns = 0

C5_Witness ==
    /\ argv.i = <<"a", ".", "M", "K", "V">> /\ world.ffmpegOnPath /\ world.size = 0
    /\ Len(requests) = 1 /\ CarriesConversion(requests[1])

\* what a JSON string literal stands for
RECURSIVE JSONUnescape(_)
JSONUnescape(s) ==
    IF s = <<>> THEN <<>>
    ELSE IF Head(s) = "\\" /\ Len(s) >= 2
    THEN LET c == s[2]
             d == CASE c = "n" -> "\n" [] c = "t" -> "\t" [] c = "r" -> "\r" [] OTHER -> c
         IN  <<d>> \o JSONUnescape(SubSeq(s, 3, Len(s)))
    ELSE <<Head(s)>> \o JSONUnescape(Tail(s))

JSONUnquote(q) == JSONUnescape(SubSeq(q, 2, Len(q) - 1))

Member(obj, key) == (CHOOSE i \in 1..Len(obj) : obj[i][1] = key)

GoodResponse ==
    /\ resp # <<>> /\ resp[1].parsed /\ resp[1].error = <<>>
    /\ resp[1].candidates # <<>> /\ resp[1].candidates[1] # <<>>

FirstText == StripSpace(world.http.body.candidates[1][1])

\* C6: a parsed response without error object whose first candidate has a
\* part makes the run print, exactly once, the trimmed text of that part; with
\* --json the one object printed has exactly the keys transcription, model and
\* file, holding that text, the model flag and the input path.
C6_PrintedOutput ==
    /\ Len(stdout) <= 1
    /\ GoodResponse =>
          /\ resp[1] = world.http.body
          /\ ~exited => pc = "output" /\ stdout = <<>> /\ transcription = FirstText
          /\ exited =>
                /\ exitCode = 0 /\ Len(stdout) = 1
                /\ stdout[1].json = argv.json
                /\ ~argv.json => stdout[1].text = FirstText
                /\ argv.json =>
                      LET obj == stdout[1].members
                      IN  /\ Len(obj) = 3
                          /\ { obj[i][1] : i \in 1..3 } = {"transcription", "model", "file"}
                          /\ JSONUnquote(obj[Member(obj, "transcription")][2]) = FirstText
                          /\ JSONUnquote(obj[Member(obj, "model")][2]) = argv.m
                          /\ JSONUnquote(obj[Member(obj, "file")][2]) = argv.i

C6_Witness ==
    /\ exited /\ GoodResponse /\ argv.json /\ Len(stdout) = 1
    /\ Len(resp[1].candidates) = 2 /\ Len(resp[1].candidates[1]) = 2
    /\ resp[1].candidates[1][1] = <<" ", "\"">>
    /\ argv.m = <<"g", "\"">>

LastErr == stderr[Len(stderr)]

\* C7: an error object in the parsed body makes transcribe fail with a text
\* holding its code and message unchanged, and nothing is printed, whatever the
\* HTTP status and even with candidates present; with neither error object nor
\* a first candidate with a part the run fails with 'no transcription in
\* response'.
C7_ErrorPassThrough ==
    (resp # <<>> /\ resp[1].parsed) =>
        /\ resp[1] = world.http.body
        /\ resp[1].error # <<>> =>
              /\ exited /\ exitCode = 1 /\ stdout = <<>> /\ transcription = <<>>
              /\ LastErr[1] = "Error transcribing: "
              /\ LastErr[2] = "API error ("
              /\ Contains(Tail(LastErr), <<"API error (">> \o Itoa(resp[1].error[1].code) \o <<"): ">>)
              /\ HasSuffix(LastErr, <<"): ">> \o resp[1].error[1].message)
        /\ (resp[1].error = <<>> /\ (resp[1].candidates = <<>> \/ resp[1].candidates[1] = <<>>)) =>
              /\ exited /\ exitCode = 1 /\ stdout = <<>>
              /\ LastErr = <<"Error transcribing: ", "no transcription in response">>

C7_Witness ==
    /\ exited /\ resp # <<>> /\ resp[1].error # <<>> /\ resp[1].error[1].code = 503
    /\ resp[1].candidates # <<>> /\ resp[1].candidates[1] # <<>>
    /\ world.http.status = 200

PastBase == prog = "main" /\ argv.parse = "ok" /\ apiKey # <<>> /\ pc \notin {"parse", "key", "base"}

ChosenBase ==
    IF argv.b # <<>> THEN argv.b
    ELSE IF world.envBase # <<>> THEN world.envBase
    ELSE <<"https://generativelanguage.googleapis.com">>

UrlIsBuilt ==
    \A i \in 1..Len(requests) :
        requests[i].url =
            baseURL \o <<"/v1beta/models/">> \o argv.m \o <<":generateContent?key=">> \o ExpectedKey

\* C8 as stated: the base URL is the flag, else the environment value, else
\* the default, with the trailing slash removed, so that it never ends with
\* '/', and the request URL is <base>/v1beta/models/<model>:generateContent?key=<key>.
C8_NoTrailingSlash ==
    PastBase =>
        /\ ChosenBase \in {baseURL, baseURL \o <<"/">>}
        /\ baseURL = <<>> \/ baseURL[Len(baseURL)] # "/"
        /\ UrlIsBuilt

\* C8 amended: one trailing slash is removed from the chosen value, so the
\* base URL ends with '/' only when the chosen value ended with two or more
\* slashes; the request URL is built from it as stated.
C8_OneSlashRemoved ==
    PastBase =>
        /\ ChosenBase \in {baseURL, baseURL \o <<"/">>}
        /\ (ChosenBase # <<>> /\ ChosenBase[Len(ChosenBase)] = "/") => ChosenBase = baseURL \o <<"/">>
        /\ (baseURL # <<>> /\ baseURL[Len(baseURL)] = "/") =>
              Len(ChosenBase) >= 2 /\ ChosenBase[Len(ChosenBase) - 1] = "/"
        /\ UrlIsBuilt

C8_Witness ==
    /\ PastBase /\ argv.b = <<>> /\ world.envBase = <<"e", "/">> /\ baseURL = <<"e">>
    /\ Len(requests) = 1

\* prepareAudio was called: the key was there, -i was given, the file was found
PastPrepare ==
    /\ prog = "main" /\ argv.parse = "ok"
    /\ pc \notin {"parse", "key", "base", "input", "prepare"}
    /\ ExpectedKey # <<>> /\ argv.i # <<>> /\ world.file # "missing"

DirectExts ==
    { <<".", "m", "p", "3">>, <<".", "w", "a", "v">>, <<".", "o", "g", "g">>,
      <<".", "f", "l", "a", "c">>, <<".", "m", "4", "a">>, <<".", "a", "a", "c">> }

DirectCase ==
    \/ ~world.ffmpegOnPath
    \/ /\ ToLower(Ext(argv.i)) \in DirectExts
       /\ world.file = "present" /\ world.size < 20 * 1024 * 1024

ExpectedMime ==
    LET ext == ToLower(Ext(argv.i))
    IN  IF \E e \in mimeTypes : e[1] = ext
        THEN (CHOOSE e \in mimeTypes : e[1] = ext)[2]
        ELSE "application/octet-stream"

\* C9: without ffmpeg on PATH the file bytes are returned as they are with
\* the MIME type of the lower-cased extension; with ffmpeg they are returned
\* as they are only for .mp3 .wav .ogg .flac .m4a .aac files of less than
\* 20*1024*1024 bytes; in every other case (other extension, 20 MiB or more, or
\* no size) ffmpeg is run and what is returned is audio/mpeg.
C9_PrepareDecision ==
    PastPrepare =>
        /\ DirectCase =>
              /\ ffmpegRuns = 0 /\ fileReads = 1
              /\ mimeType # "" => audioData = world.content /\ mimeType = ExpectedMime
        /\ ~DirectCase =>
              /\ fileReads = 0
              /\ world.createTempOk => ffmpegRuns = 1
              /\ mimeType # "" =>
                    /\ ffmpegRuns = 1 /\ mimeType = "audio/mpeg"
                    /\ audioData = <<"mp3">> \o world.content

C9_Witness ==
    /\ PastPrepare /\ world.ffmpegOnPath /\ argv.i = <<"a", ".", "W", "a", "v">>
    /\ world.size = 20971520 /\ world.file = "present"
    /\ ffmpegRuns = 1 /\ mimeType = "audio/mpeg"

=============================================================================
